---- MODULE Spec2Model ----
(***************************************************************************)
(* appleargs: capture of the "apple" argument vector in a module           *)
(* initialiser (init_function), its publication through the two atomic     *)
(* cells ARGS_LEN / ARGS_DATA, the snapshot read (args_slice /             *)
(* args_slice_iter) and the env-style queries built on it                  *)
(* (apple_getenv, apple_var, split_kv).                                   *)
(*                                                                         *)
(* Byte strings are sequences of integers 0..255.  Three specifications    *)
(* share the variables:                                                    *)
(*   Spec         capture interleaved with reader threads, under a         *)
(*                view-based release/acquire memory model;                 *)
(*   SpecCapture  capture alone, over all bounded argument vectors;        *)
(*   SpecQuery    the pure lookup functions over bounded keys and entry    *)
(*                lists (apple_getenv takes the list as an argument).      *)
(***************************************************************************)
EXTENDS Integers, Sequences, FiniteSets, TLC

\* ------------------------------------------------------------------ bounds
\* Total size of an entry list given to the lookups, each entry counted
\* with one terminator byte.
MaxEnvBytes == 6
\* Longest lookup key enumerated.
MaxKeyLen == 1

\* ------------------------------------------------------------------ bytes
NUL == 0
EQ == 61

\* Bytes the bounded entry lists and keys are built from: NUL, '=', 'a' and
\* 0xFF (never valid in UTF-8).
EnvBytes == {NUL, EQ, 97, 255}

BoundedSeq(S, n) == UNION {[1..k -> S] : k \in 0..n}

\* ------------------------------------------------------- slice primitives
\* <[u8]>::contains
Contains(s, b) == \E j \in 1..Len(s) : s[j] = b

\* <[u8]>::starts_with
StartsWith(a, k) == Len(k) <= Len(a) /\ SubSeq(a, 1, Len(k)) = k

\* a.get(n) == Some(&b), n a zero-based index
GetIs(a, n, b) == n < Len(a) /\ a[n + 1] = b

\* &a[n..], n a zero-based index with n <= a.len()
SliceFrom(a, n) == SubSeq(a, n + 1, Len(a))

\* &a[..n]
SliceTo(a, n) == SubSeq(a, 1, n)

\* Option<&[u8]>
None == [some |-> FALSE, val |-> <<>>]
Some(x) == [some |-> TRUE, val |-> x]

\* ----------------------------------------------------------- UTF-8 check
\* core::str::from_utf8 succeeds on exactly the well-formed UTF-8 byte
\* sequences; the result shares the bytes of its argument.
IsCont(b) == 128 <= b /\ b <= 191

Utf8CharWidth(b) ==
    IF b < 128 THEN 1
    ELSE IF 194 <= b /\ b <= 223 THEN 2
    ELSE IF 224 <= b /\ b <= 239 THEN 3
    ELSE IF 240 <= b /\ b <= 244 THEN 4
    ELSE 0

Utf8Second3(first, next) ==
    \/ first = 224 /\ 160 <= next /\ next <= 191
    \/ 225 <= first /\ first <= 236 /\ IsCont(next)
    \/ first = 237 /\ 128 <= next /\ next <= 159
    \/ 238 <= first /\ first <= 239 /\ IsCont(next)

Utf8Second4(first, next) ==
    \/ first = 240 /\ 144 <= next /\ next <= 191
    \/ 241 <= first /\ first <= 243 /\ IsCont(next)
    \/ first = 244 /\ 128 <= next /\ next <= 143

RECURSIVE Utf8From(_, _)
Utf8From(s, i) ==
    IF i > Len(s) THEN TRUE
    ELSE LET w == Utf8CharWidth(s[i]) IN
         IF w = 1 THEN Utf8From(s, i + 1)
         ELSE IF w = 2 THEN
              /\ i + 1 <= Len(s)
              /\ IsCont(s[i + 1])
              /\ Utf8From(s, i + 2)
         ELSE IF w = 3 THEN
              /\ i + 2 <= Len(s)
              /\ Utf8Second3(s[i], s[i + 1])
              /\ IsCont(s[i + 2])
              /\ Utf8From(s, i + 3)
         ELSE IF w = 4 THEN
              /\ i + 3 <= Len(s)
              /\ Utf8Second4(s[i], s[i + 1])
              /\ IsCont(s[i + 2])
              /\ IsCont(s[i + 3])
              /\ Utf8From(s, i + 4)
         ELSE FALSE

from_utf8_ok(s) == Utf8From(s, 1)

\* ---------------------------------------------------------------- lookups
\* The test of one entry in apple_getenv's loop.
GetenvMatchNoStartsWith(a, k) == GetIs(a, Len(k), EQ)

GetenvMatchByFirstEq(a, k) ==
    \E p \in 1..Len(a) :
        /\ a[p] = EQ
        /\ \A q \in 1..(p - 1) : a[q] # EQ
        /\ SubSeq(a, 1, p - 1) = k

GetenvMatch(a, k) == GetIs(a, Len(k), EQ) /\ StartsWith(a, k)

\* The value returned for a matching entry: &a[k.len() + 1..]
GetenvValueAfterLastEq(a, k) ==
    LET last == CHOOSE p \in 1..Len(a) :
                    a[p] = EQ /\ \A q \in (p + 1)..Len(a) : a[q] # EQ
    IN  SliceFrom(a, last)

GetenvValue(a, k) == SliceFrom(a, Len(k) + 1)

\* The for loop of apple_getenv, from entry j on.
RECURSIVE GetenvScan(_, _, _)
GetenvScan(k, env, j) ==
    IF j > Len(env) THEN None
    ELSE IF GetenvMatch(env[j], k) THEN Some(GetenvValue(env[j], k))
    ELSE GetenvScan(k, env, j + 1)

\* The early return of apple_getenv.
KeyRejectedNever(k) == FALSE

KeyRejected(k) == Contains(k, NUL)

apple_getenv(k, env) ==
    IF KeyRejected(k) THEN None ELSE GetenvScan(k, env, 1)

\* Result<&str, VarError>
VarOk(v) == [tag |-> "Ok", val |-> v]
VarNotUnicode(v) == [tag |-> "NotUnicode", val |-> v]
VarNotPresent == [tag |-> "NotPresent", val |-> <<>>]

\* core::str::from_utf8(v).map_err(|_| VarError::NotUnicode(v))
VarDecodeLossy(v) == VarOk(v)

VarDecode(v) == IF from_utf8_ok(v) THEN VarOk(v) ELSE VarNotUnicode(v)

\* apple_var_impl, with the snapshot as a parameter
apple_var(s, env) ==
    LET r == apple_getenv(s, env) IN
    IF r.some THEN VarDecode(r.val) ELSE VarNotPresent

\* ------------------------------------------------------ inputs of SpecQuery
RECURSIVE EnvUpTo(_)
EnvUpTo(b) ==
    {<<>>} \cup
    UNION { { <<a>> \o rest : rest \in EnvUpTo(b - Len(a) - 1) }
            : a \in BoundedSeq(EnvBytes, b - 1) }

\* The entry lists and keys of test_apple_getenv.
TestEnvs ==
    { << <<102,111,111,98,61,49>>, <<102,111,61,50>>, <<98,102,111,111,61,51>>,
         <<102,111,111,61,52>> >>,
      << <<102,111,111,98,61,49>>, <<102,111,61,50>>, <<98,102,111,111,61,51>>,
         <<102,111,111,61>> >>,
      << <<102,111,111,98,61,49>>, <<102,111,61,50>>, <<98,102,111,111,61,51>>,
         <<102,111,111,61,49,61,50>> >>,
      << <<98,102,111,111,61,49>>, <<102,111,61,50>> >>,
      << <<61,97,98,99>>, <<61,61,100,101,102>> >>,
      << <<97,98,99,61,255,0,255>> >> }

TestKeys == { <<102,111,111>>, <<102,111,111,0>>, <<61>>, <<97,98,99>> }

\* Entry lists that exercise apple_var beyond the byte budget: an invalid
\* value shadowing a valid one, and a valid two-byte character.
VarEnvs ==
    { << <<97,61,195>>, <<97,61,97>> >>,
      << <<97,61,195,169>>, <<97,61,255>> >> }

\* A snapshot with an entry of each shape the key/value split tells apart:
\* "a=b", "c", "=b", "a=", "a=b=c".
KvEnvs ==
    { << <<97,61,98>>, <<99>>, <<61,98>>, <<97,61>>, <<97,61,98,61,99>> >> }

EnvInputs == EnvUpTo(MaxEnvBytes) \cup TestEnvs \cup VarEnvs \cup KvEnvs
KeyInputs == BoundedSeq(EnvBytes, MaxKeyLen) \cup TestKeys

\* ---------------------------------------------------- key/value iteration
\* s.iter().position(|&b| b == b'='), from zero-based offset n on; -1 is None
RPositionEq(s, n) ==
    IF \E p \in (n + 1)..Len(s) : s[p] = EQ
    THEN (CHOOSE p \in (n + 1)..Len(s) :
              s[p] = EQ /\ \A q \in (p + 1)..Len(s) : s[q] # EQ) - 1
    ELSE -1

RECURSIVE PositionEq(_, _)
PositionEq(s, n) ==
    IF n >= Len(s) THEN -1
    ELSE IF s[n + 1] = EQ THEN n
    ELSE PositionEq(s, n + 1)

\* split_kv: None, or Some((&s[..equals], &s[(equals + 1)..]))
split_kv(s) ==
    LET equals == PositionEq(s, 0) IN
    IF equals < 0 THEN [some |-> FALSE, k |-> <<>>, v |-> <<>>]
    ELSE [some |-> TRUE, k |-> SliceTo(s, equals), v |-> SliceFrom(s, equals + 1)]

\* args_slice().iter().copied().filter_map(split_kv), collected
RECURSIVE split_args_iter(_)
split_args_iter(snapshot) ==
    IF snapshot = <<>> THEN <<>>
    ELSE LET kv == split_kv(Head(snapshot)) IN
         IF kv.some THEN << <<kv.k, kv.v>> >> \o split_args_iter(Tail(snapshot))
         ELSE split_args_iter(Tail(snapshot))

\* ------------------------------------------------------------ the query API
\* What a call returns: for the iterators the items yielded and whether the
\* traversal panicked (str_from_slice's expect); for the lookups a tag and
\* the value bytes.
Items(xs) == [panic |-> FALSE, items |-> xs, tag |-> "-", val |-> <<>>]
Panicked(xs) == [panic |-> TRUE, items |-> xs, tag |-> "-", val |-> <<>>]
Looked(tag, v) == [panic |-> FALSE, items |-> <<>>, tag |-> tag, val |-> v]

\* AppleArgs: next() maps str_from_slice over the entries until one panics.
RECURSIVE AppleArgsCollect(_, _)
AppleArgsCollect(rest, done) ==
    IF rest = <<>> THEN Items(done)
    ELSE IF from_utf8_ok(Head(rest))
         THEN AppleArgsCollect(Tail(rest), Append(done, Head(rest)))
    ELSE Panicked(done)

\* AppleVars: next() maps str_from_slice over key and value of each pair.
RECURSIVE AppleVarsCollect(_, _)
AppleVarsCollect(rest, done) ==
    IF rest = <<>> THEN Items(done)
    ELSE IF from_utf8_ok(Head(rest)[1]) /\ from_utf8_ok(Head(rest)[2])
         THEN AppleVarsCollect(Tail(rest), Append(done, Head(rest)))
    ELSE Panicked(done)

apple_args_os(snapshot) == Items(snapshot)
apple_args(snapshot) == AppleArgsCollect(snapshot, <<>>)
apple_vars_os(snapshot) == Items(split_args_iter(snapshot))
apple_vars(snapshot) == AppleVarsCollect(split_args_iter(snapshot), <<>>)
apple_var_os(k, snapshot) ==
    LET r == apple_getenv(k, snapshot) IN
    IF r.some THEN Looked("Some", r.val) ELSE Looked("None", <<>>)
apple_var_api(k, snapshot) ==
    LET r == apple_var(k, snapshot) IN Looked(r.tag, r.val)

\* ------------------------------------------------ AppleArgs, AppleArgsOs
\* Calls that return None after exhaustion, followed this far.
MaxNoneCalls == 2

\* core::slice::Iter over the snapshot: the entries lo+1..hi are still ahead.
SliceIter(snapshot) == [lo |-> 0, hi |-> Len(snapshot)]
SliceIterLenFromStart(inner) == inner.hi
SliceIterLen(inner) == inner.hi - inner.lo

\* The closures mapped over the entries: str_from_slice is from_utf8 and
\* expect, OsStr::from_bytes keeps the bytes.
StrFromSliceLossy(bytes) ==
    [panic |-> FALSE, val |-> IF from_utf8_ok(bytes) THEN bytes ELSE <<239, 191, 189>>]
str_from_slice(bytes) ==
    IF from_utf8_ok(bytes) THEN [panic |-> FALSE, val |-> bytes]
    ELSE [panic |-> TRUE, val |-> <<>>]
OsStrFromBytes(bytes) == [panic |-> FALSE, val |-> bytes]
MapItem(kind, bytes) ==
    IF kind = "AppleArgs" THEN str_from_slice(bytes) ELSE OsStrFromBytes(bytes)

\* An iterator: its kind, the inner slice iterator, what the last call
\* returned (ret), the items handed out so far with the entry each refers
\* to and the end it was taken from, and the None returns so far.
NoRet == [tag |-> "-", pos |-> 0, val |-> <<>>]
NoIter == [kind |-> "-", inner |-> SliceIter(<<>>), ret |-> NoRet,
           yielded |-> <<>>, nones |-> 0]
NewIter(kind, snapshot) ==
    [kind |-> kind, inner |-> SliceIter(snapshot), ret |-> NoRet,
     yielded |-> <<>>, nones |-> 0]

\* len(), size_hint() and count() all read the inner iterator's length.
IterLen(it) == SliceIterLen(it.inner)
IterSizeHint(it) == <<SliceIterLen(it.inner), Some(SliceIterLen(it.inner))>>
IterCount(it) == SliceIterLen(it.inner)

\* next() (end = "front") and next_back() (end = "back"): the inner iterator
\* moves first, then the closure runs on the entry and may panic.
IterStep(it, end, snapshot) ==
    IF it.inner.lo = it.inner.hi
    THEN [it EXCEPT !.ret = [tag |-> "None", pos |-> 0, val |-> <<>>],
                    !.nones = it.nones + 1]
    ELSE LET pos == IF end = "front" THEN it.inner.lo + 1 ELSE it.inner.hi
             moved == IF end = "front"
                      THEN [it.inner EXCEPT !.lo = it.inner.lo + 1]
                      ELSE [it.inner EXCEPT !.hi = it.inner.hi - 1]
             item == MapItem(it.kind, snapshot[pos])
         IN IF item.panic
            THEN [it EXCEPT !.inner = moved,
                            !.ret = [tag |-> "panic", pos |-> pos, val |-> <<>>]]
            ELSE [it EXCEPT !.inner = moved,
                            !.ret = [tag |-> "Some", pos |-> pos, val |-> item.val],
                            !.yielded = Append(it.yielded,
                                [pos |-> pos, end |-> end, val |-> item.val])]

\* The calls a reader thread makes: the four iterators and the two lookups.
QueryKeys == {<<>>, <<97>>}
Calls ==
    {[op |-> o, key |-> <<>>] :
        o \in {"apple_args_os", "apple_args", "apple_vars_os", "apple_vars"}}
    \cup {[op |-> o, key |-> k] : o \in {"apple_var_os", "apple_var"}, k \in QueryKeys}

RunCall(c, snapshot) ==
    CASE c.op = "apple_args_os" -> apple_args_os(snapshot)
      [] c.op = "apple_args" -> apple_args(snapshot)
      [] c.op = "apple_vars_os" -> apple_vars_os(snapshot)
      [] c.op = "apple_vars" -> apple_vars(snapshot)
      [] c.op = "apple_var_os" -> apple_var_os(c.key, snapshot)
      [] c.op = "apple_var" -> apple_var_api(c.key, snapshot)

\* ------------------------------------------------------ the applep vector
\* A pointer slot of the vector: null, or the bytes at the pointer (a
\* NUL-terminated buffer, with whatever follows the terminator).
NullSlot == [null |-> TRUE, buf |-> <<>>]
StrSlot(b) == [null |-> FALSE, buf |-> b]
\* applep itself: null, or the slots from the pointer on.
NullVec == [null |-> TRUE, arr |-> <<>>]
Vec(a) == [null |-> FALSE, arr |-> a]

\* extern strlen: the offset of the first NUL byte from p on
RECURSIVE StrlenFrom(_, _)
StrlenFrom(p, n) == IF p[n + 1] = NUL THEN n ELSE StrlenFrom(p, n + 1)
strlenWholeBuffer(p) == Len(p)
strlen(p) == StrlenFrom(p, 0)

\* `if !s.is_empty()`
KeepEntryAlways(s) == TRUE
KeepEntry(s) == s # <<>>

\* `!applep.is_null() && !applep.read().is_null()` with applep advanced by
\* idx slots
LoopCond(ap, idx) == ~ap.null /\ ~ap.arr[idx + 1].null

\* Vec<&[u8]> growth: the capacity after n pushes (4, then doubling)
RECURSIVE GrowTo(_, _)
GrowTo(cap, n) == IF cap >= n THEN cap ELSE GrowTo(2 * cap, n)
VecCapacity(n) == IF n = 0 THEN 0 ELSE GrowTo(4, n)

\* The value stored to ARGS_LEN: v.len()
LenStoredCapacity(vec) == VecCapacity(Len(vec))
LenStoredPlusOne(vec) == Len(vec) + 1
LenStored(vec) == Len(vec)

\* The value stored to ARGS_DATA: the address of the boxed / leaked slice,
\* which is a dangling non-null address for an empty one.
SlicePtr(vec) == IF Len(vec) = 0 THEN "dangling" ELSE "alloc"

\* Orderings of the ARGS_DATA store and load.
Relaxed == "Relaxed"
DataStoreOrdering == "Release"
DataLoadOrdering == "Acquire"

\* AbortGuard::drop panics while unwinding, which aborts the process.
GuardDropReturns == "escaped"
AbortGuardDrop == "aborted"

\* ---------------------------------------------------------- memory model
\* A thread's view: per atomic cell the index of the latest store it has
\* seen, and the number of writes to the leaked slice that happen-before it.
ZeroView == [len |-> 1, data |-> 1, heap |-> 0]
MaxN(x, y) == IF x >= y THEN x ELSE y
Join(a, b) ==
    [len |-> MaxN(a.len, b.len), data |-> MaxN(a.data, b.data),
     heap |-> MaxN(a.heap, b.heap)]

\* `.unwrap_or(&[])`
NullSlice == <<>>

\* core::slice::from_raw_parts(ptr, len) read by a thread: the first len
\* entries at ptr.  A read that races with the capture's writes (they do not
\* happen-before it), or that runs past the slice, is undefined: the entry
\* read is then the capture's entry or stale memory, shown as <<>>.
FromRawParts(mem, len, synced) ==
    IF synced /\ len <= Len(mem) THEN {SubSeq(mem, 1, len)}
    ELSE { [j \in 1..len |-> IF j \in good THEN mem[j] ELSE <<>>] :
             good \in SUBSET (1..MaxN(0, IF len <= Len(mem) THEN len ELSE Len(mem))) }

\* ------------------------------------------------------------------ state
VARIABLES
    applep,     \* the supplemental vector the loader passes (lib.rs:170)
    variant,    \* which init_function runs: "lib" (lib.rs:166) or "sys" (sys.rs:24)
    pc,         \* the initialising thread's position in init_function
    idx,        \* how far applep has been advanced (lib.rs:196)
    v,          \* the Vec of leaked entries (lib.rs:177)
    guard,      \* the AbortGuard (lib.rs:176): "none", "armed", "defused", "dropped"
    ARGS_LEN,   \* the stores to ARGS_LEN, in modification order (lib.rs:164)
    ARGS_DATA,  \* the stores to ARGS_DATA, in modification order (lib.rs:163)
    heap,       \* the entries at the published address (lib.rs:204)
    mview,      \* the initialising thread's view
    rpc,        \* reader thread -> "unborn", "idle", "loaded", "returned"
    rview,      \* reader thread -> its view
    rafter,     \* reader thread -> its call began with the publication in view
    rptr,       \* reader thread -> the address it loaded (lib.rs:148)
    rlen,       \* reader thread -> the length it loaded (lib.rs:154)
    snap,       \* reader thread -> the slice args_slice returned (sys.rs:5)
    out,        \* reader thread -> the call made and its result
    qpc, qkey, qenv, qres,  \* SpecQuery: a lookup's inputs and result (env.rs:165)
    qit         \* SpecQuery: an AppleArgs / AppleArgsOs being traversed (lib.rs:20, 83)

\* Number of reader threads.
NumReaders == 2
Readers == 1..NumReaders

cvars == <<applep, variant, pc, idx, v, guard, ARGS_LEN, ARGS_DATA, heap, mview>>
rvars == <<rpc, rview, rafter, rptr, rlen, snap, out>>
qvars == <<qpc, qkey, qenv, qres, qit>>
vars == <<applep, variant, pc, idx, v, guard, ARGS_LEN, ARGS_DATA, heap, mview,
          rpc, rview, rafter, rptr, rlen, snap, out, qpc, qkey, qenv, qres, qit>>

NoCall == [op |-> "-", key |-> <<>>, res |-> Items(<<>>)]

\* The statics and the threads before the loader runs the initialiser.
StartState ==
    /\ pc = "start"
    /\ idx = 0
    /\ v = <<>>
    /\ guard = "none"
    /\ ARGS_LEN = << 0 >>
    /\ ARGS_DATA = << [val |-> "null", rel |-> FALSE, view |-> ZeroView] >>
    /\ heap = <<>>
    /\ mview = ZeroView
    /\ rpc = [r \in Readers |-> "unborn"]
    /\ rview = [r \in Readers |-> ZeroView]
    /\ rafter = [r \in Readers |-> FALSE]
    /\ rptr = [r \in Readers |-> "null"]
    /\ rlen = [r \in Readers |-> 0]
    /\ snap = [r \in Readers |-> <<>>]
    /\ out = [r \in Readers |-> NoCall]

QIdle ==
    /\ qpc = "off"
    /\ qkey = <<>>
    /\ qenv = <<>>
    /\ qres = None
    /\ qit = NoIter

\* ------------------------------------------------------------ init_function
\* The loader calls CTOR: the guard is armed and v is empty.
Enter ==
    /\ pc = "start"
    /\ pc' = "loop"
    /\ guard' = "armed"
    /\ v' = <<>>
    /\ UNCHANGED <<applep, variant, idx, ARGS_LEN, ARGS_DATA, heap, mview>>
    /\ UNCHANGED rvars /\ UNCHANGED qvars

\* One evaluation of the while condition and, when it holds, of the body.
LoopStep ==
    /\ pc = "loop"
    /\ IF LoopCond(applep, idx)
       THEN LET p == applep.arr[idx + 1].buf
                s == SubSeq(p, 1, strlen(p))
            IN  /\ IF KeepEntry(s)
                   THEN /\ v' = Append(v, s)
                        /\ mview' = [mview EXCEPT !.heap = @ + 1]
                   ELSE UNCHANGED <<v, mview>>
                /\ idx' = idx + 1
                /\ pc' = "loop"
       ELSE /\ pc' = "store_len"
            /\ UNCHANGED <<v, mview, idx>>
    /\ UNCHANGED <<applep, variant, guard, ARGS_LEN, ARGS_DATA, heap>>
    /\ UNCHANGED rvars /\ UNCHANGED qvars

\* The allocation of the loop body (to_owned, push) fails and unwinds.
LoopPanic ==
    /\ pc = "loop"
    /\ LoopCond(applep, idx)
    /\ KeepEntry(SubSeq(applep.arr[idx + 1].buf, 1, strlen(applep.arr[idx + 1].buf)))
    /\ pc' = "unwinding"
    /\ UNCHANGED <<applep, variant, idx, v, guard, ARGS_LEN, ARGS_DATA, heap, mview>>
    /\ UNCHANGED rvars /\ UNCHANGED qvars

\* ARGS_LEN.store(v.len(), Relaxed)
StoreLen ==
    /\ pc = "store_len"
    /\ ARGS_LEN' = Append(ARGS_LEN, LenStored(v))
    /\ mview' = [mview EXCEPT !.len = Len(ARGS_LEN) + 1]
    /\ pc' = "store_data"
    /\ UNCHANGED <<applep, variant, idx, v, guard, ARGS_DATA, heap>>
    /\ UNCHANGED rvars /\ UNCHANGED qvars

\* lib.rs: v.into_boxed_slice() reallocates a Vec with spare capacity, which
\* can fail and unwind after the length was stored.
BoxPanic ==
    /\ pc = "store_data"
    /\ variant = "lib"
    /\ VecCapacity(Len(v)) > Len(v)
    /\ pc' = "unwinding"
    /\ UNCHANGED <<applep, variant, idx, v, guard, ARGS_LEN, ARGS_DATA, heap, mview>>
    /\ UNCHANGED rvars /\ UNCHANGED qvars

\* ARGS_DATA.store(<address of the slice>, Release)
StoreData ==
    /\ pc = "store_data"
    /\ heap' = v
    /\ ARGS_DATA' = Append(ARGS_DATA,
           [val |-> SlicePtr(v),
            rel |-> DataStoreOrdering = "Release",
            view |-> [mview EXCEPT !.data = Len(ARGS_DATA) + 1]])
    /\ mview' = [mview EXCEPT !.data = Len(ARGS_DATA) + 1]
    /\ pc' = "forget"
    /\ UNCHANGED <<applep, variant, idx, v, guard, ARGS_LEN>>
    /\ UNCHANGED rvars /\ UNCHANGED qvars

\* core::mem::forget(guard) and the return to the loader
Forget ==
    /\ pc = "forget"
    /\ guard' = "defused"
    /\ pc' = "done"
    /\ UNCHANGED <<applep, variant, idx, v, ARGS_LEN, ARGS_DATA, heap, mview>>
    /\ UNCHANGED rvars /\ UNCHANGED qvars

\* Unwinding drops the armed guard: AbortGuard::drop.
GuardDrop ==
    /\ pc = "unwinding"
    /\ guard = "armed"
    /\ guard' = "dropped"
    /\ pc' = AbortGuardDrop
    /\ UNCHANGED <<applep, variant, idx, v, ARGS_LEN, ARGS_DATA, heap, mview>>
    /\ UNCHANGED rvars /\ UNCHANGED qvars

\* ------------------------------------------------------------ reader threads
\* A thread comes to exist before the loader runs the initialiser or after
\* the initialiser returned; its creation carries the creator's view.
Start(r) ==
    /\ pc \in {"start", "done"}
    /\ rpc[r] = "unborn"
    /\ rpc' = [rpc EXCEPT ![r] = "idle"]
    /\ rview' = [rview EXCEPT ![r] = mview]
    /\ UNCHANGED <<rafter, rptr, rlen, snap, out>>
    /\ UNCHANGED cvars /\ UNCHANGED qvars

\* args_slice: ARGS_DATA.load(Acquire)
LoadData(r) ==
    /\ pc # "aborted"
    /\ rpc[r] \in {"idle", "returned"}
    /\ \E t \in rview[r].data .. Len(ARGS_DATA) :
          LET msg == ARGS_DATA[t]
              seen == [rview[r] EXCEPT !.data = t]
          IN  /\ rptr' = [rptr EXCEPT ![r] = msg.val]
              /\ rview' = [rview EXCEPT ![r] =
                    IF DataLoadOrdering = "Acquire" /\ msg.rel
                    THEN Join(seen, msg.view) ELSE seen]
    /\ rafter' = [rafter EXCEPT ![r] = rview[r].data > 1]
    /\ rpc' = [rpc EXCEPT ![r] = "loaded"]
    /\ rlen' = [rlen EXCEPT ![r] = 0]
    /\ snap' = [snap EXCEPT ![r] = <<>>]
    /\ out' = [out EXCEPT ![r] = NoCall]
    /\ UNCHANGED cvars /\ UNCHANGED qvars

\* args_slice on a null address: the empty slice; then the rest of call c.
FinishNull(r, c) ==
    /\ pc # "aborted"
    /\ rpc[r] = "loaded"
    /\ rptr[r] = "null"
    /\ snap' = [snap EXCEPT ![r] = NullSlice]
    /\ out' = [out EXCEPT ![r] = [op |-> c.op, key |-> c.key,
                                  res |-> RunCall(c, NullSlice)]]
    /\ rpc' = [rpc EXCEPT ![r] = "returned"]
    /\ UNCHANGED <<rview, rafter, rptr, rlen>>
    /\ UNCHANGED cvars /\ UNCHANGED qvars

\* args_slice on a non-null address: ARGS_LEN.load(Relaxed) and
\* from_raw_parts; then the rest of call c.
FinishLen(r, c) ==
    /\ pc # "aborted"
    /\ rpc[r] = "loaded"
    /\ rptr[r] # "null"
    /\ \E t \in rview[r].len .. Len(ARGS_LEN) :
          /\ rlen' = [rlen EXCEPT ![r] = ARGS_LEN[t]]
          /\ rview' = [rview EXCEPT ![r].len = t]
          /\ \E sl \in FromRawParts(heap, ARGS_LEN[t],
                                    ARGS_LEN[t] = 0 \/ rview[r].heap >= mview.heap) :
                /\ snap' = [snap EXCEPT ![r] = sl]
                /\ out' = [out EXCEPT ![r] = [op |-> c.op, key |-> c.key,
                                              res |-> RunCall(c, sl)]]
    /\ rpc' = [rpc EXCEPT ![r] = "returned"]
    /\ UNCHANGED <<rafter, rptr>>
    /\ UNCHANGED cvars /\ UNCHANGED qvars

\* ----------------------------------------------------------- the inputs
\* NUL-terminated buffers of at most n bytes over the bytes bs.
CBuffers(bs, n) ==
    {Append(b, NUL) : b \in BoundedSeq(bs \cup {NUL}, n - 1)}
\* Vectors of at most n slots whose last slot is null.
Vectors(bs, n, m) ==
    {NullVec} \cup
    {Vec(Append(a, NullSlot)) :
        a \in BoundedSeq({NullSlot} \cup {StrSlot(b) : b \in CBuffers(bs, m)}, n - 1)}

\* Slots and buffer bytes of the vectors SpecCapture enumerates.
MaxSlots == 4
MaxStr == 3
CaptureBytes == {97}

\* The vectors Spec runs the threads against: none, an empty one, one whose
\* only entry is empty, and one with key=value entries, an empty entry, a
\* plain entry and slots after the terminating null.
SpecVectors ==
    { NullVec,
      Vec(<<NullSlot>>),
      Vec(<<StrSlot(<<NUL>>), NullSlot>>),
      Vec(<<StrSlot(<<97, EQ, 97, NUL>>), StrSlot(<<NUL, 97>>), StrSlot(<<EQ, NUL>>),
            StrSlot(<<97, NUL>>), NullSlot, StrSlot(<<97, NUL>>), NullSlot>>),
      Vec(<<StrSlot(<<97, EQ, 255, NUL>>), StrSlot(<<97, EQ, 97, NUL>>), NullSlot>>) }

CaptureNext ==
    \/ Enter \/ LoopStep \/ LoopPanic \/ StoreLen \/ BoxPanic \/ StoreData
    \/ Forget \/ GuardDrop

ReaderNext ==
    \E r \in Readers :
        \/ Start(r)
        \/ LoadData(r)
        \/ \E c \in Calls : FinishNull(r, c)
        \/ \E c \in Calls : FinishLen(r, c)

Init ==
    /\ applep \in SpecVectors
    /\ variant \in {"lib", "sys"}
    /\ StartState
    /\ QIdle

Next == CaptureNext \/ ReaderNext

Spec == Init /\ [][Next]_vars

CaptureInit ==
    /\ applep \in Vectors(CaptureBytes, MaxSlots, MaxStr)
    /\ variant \in {"lib", "sys"}
    /\ StartState
    /\ QIdle

SpecCapture == CaptureInit /\ [][CaptureNext]_vars

QInit ==
    /\ qpc = "input"
    /\ qkey \in KeyInputs
    /\ qenv \in EnvInputs
    /\ qres = None
    /\ qit = NoIter
    /\ applep = NullVec
    /\ variant = "lib"
    /\ StartState

\* A call apple_getenv(qkey, qenv).
CallGetenv ==
    /\ qpc = "input"
    /\ qres' = apple_getenv(qkey, qenv)
    /\ qpc' = "getenv"
    /\ UNCHANGED <<qkey, qenv, qit>>
    /\ UNCHANGED cvars /\ UNCHANGED rvars

\* A call apple_var(qkey) with the snapshot qenv.
CallVar ==
    /\ qpc = "input"
    /\ qres' = apple_var(qkey, qenv)
    /\ qpc' = "var"
    /\ UNCHANGED <<qkey, qenv, qit>>
    /\ UNCHANGED cvars /\ UNCHANGED rvars

\* What capture leaves in a snapshot: entries cut at their first NUL, the
\* empty ones dropped.
IsSnapshot(env) ==
    \A j \in 1..Len(env) : env[j] # <<>> /\ ~Contains(env[j], NUL)

\* apple_vars_os() over the snapshot qenv, run to its end. The iterators take
\* no key, so they start from the inputs whose key is empty.
CallVarsOs ==
    /\ qpc = "input"
    /\ qkey = <<>>
    /\ IsSnapshot(qenv)
    /\ qres' = apple_vars_os(qenv)
    /\ qpc' = "vars_os"
    /\ UNCHANGED <<qkey, qenv, qit>>
    /\ UNCHANGED cvars /\ UNCHANGED rvars

\* apple_args() and apple_args_os(): a fresh iterator over the snapshot qenv.
NewAppleArgs ==
    /\ qpc = "input"
    /\ qkey = <<>>
    /\ IsSnapshot(qenv)
    /\ qit' = NewIter("AppleArgs", qenv)
    /\ qpc' = "iter"
    /\ UNCHANGED <<qkey, qenv, qres>>
    /\ UNCHANGED cvars /\ UNCHANGED rvars

NewAppleArgsOs ==
    /\ qpc = "input"
    /\ qkey = <<>>
    /\ IsSnapshot(qenv)
    /\ qit' = NewIter("AppleArgsOs", qenv)
    /\ qpc' = "iter"
    /\ UNCHANGED <<qkey, qenv, qres>>
    /\ UNCHANGED cvars /\ UNCHANGED rvars

\* A call of next() or next_back() on the iterator; a panic ends the
\* traversal.
IterCall(end) ==
    /\ qpc = "iter"
    /\ qit.ret.tag # "panic"
    /\ qit.nones < MaxNoneCalls
    /\ qit' = IterStep(qit, end, qenv)
    /\ UNCHANGED <<qpc, qkey, qenv, qres>>
    /\ UNCHANGED cvars /\ UNCHANGED rvars

IterNext == IterCall("front")
IterNextBack == IterCall("back")

QNext ==
    \/ CallGetenv \/ CallVar \/ CallVarsOs
    \/ NewAppleArgs \/ NewAppleArgsOs \/ IterNext \/ IterNextBack

SpecQuery == QInit /\ [][QNext]_vars

\* =================================================================== claims
\* Declarative reading of an entry as key=value: the split at the first '='.
HasEq(a) == \E p \in 1..Len(a) : a[p] = EQ
FirstEq(a) == CHOOSE p \in 1..Len(a) : a[p] = EQ /\ \A q \in 1..(p - 1) : a[q] # EQ
EqPrefix(a) == SubSeq(a, 1, FirstEq(a) - 1)
EqSuffix(a) == SubSeq(a, FirstEq(a) + 1, Len(a))
MinOf(S) == CHOOSE m \in S : \A n \in S : m <= n

\* The lookup as the specification words it: the first entry whose
\* '='-prefix equals the key, and its value.
PrefixMatches(k, env) ==
    {j \in 1..Len(env) : HasEq(env[j]) /\ EqPrefix(env[j]) = k}
PrefixLookup(k, env) ==
    IF PrefixMatches(k, env) = {} THEN None
    ELSE Some(EqSuffix(env[MinOf(PrefixMatches(k, env))]))

\* The entries that carry the key followed by '=' at their start.
OffsetMatches(k, env) ==
    {j \in 1..Len(env) : StartsWith(env[j], k \o <<EQ>>)}
OffsetLookup(k, env) ==
    IF Contains(k, NUL) \/ OffsetMatches(k, env) = {} THEN None
    ELSE Some(SubSeq(env[MinOf(OffsetMatches(k, env))], Len(k) + 2,
                     Len(env[MinOf(OffsetMatches(k, env))])))

\* The captured set as the specification words it: the strings before the
\* first null slot, each up to its first NUL byte, the empty ones left out.
CStr(buf) == SubSeq(buf, 1, MinOf({j \in 1..Len(buf) : buf[j] = NUL}) - 1)
BeforeFirstNull(arr) ==
    SubSeq(arr, 1, MinOf({j \in 1..Len(arr) : arr[j].null}) - 1)
NonEmpty(s) == s # <<>>
Captured(ap) ==
    IF ap.null THEN <<>>
    ELSE SelectSeq([j \in 1..Len(BeforeFirstNull(ap.arr)) |->
                       CStr(BeforeFirstNull(ap.arr)[j].buf)], NonEmpty)

LastOf(cell) == cell[Len(cell)]
Published == Len(ARGS_DATA) > 1

\* C1: whatever the interleaving of the capture's two stores with the
\* readers' loads, a read that has returned either saw a null address and
\* returned the empty slice, or saw the published address together with the
\* published length and returned exactly the captured sequence.
C1_EmptyOrComplete ==
    \A r \in Readers :
        rpc[r] = "returned" =>
            \/ rptr[r] = "null" /\ snap[r] = <<>>
            \/ /\ rptr[r] # "null"
               /\ rlen[r] = Len(Captured(applep))
               /\ snap[r] = Captured(applep)

\* C1 witness: before the capture has returned, one read came back empty
\* from a null address and another came back with the complete, non-empty
\* sequence.
C1_Witness ==
    /\ pc = "forget"
    /\ \E r1, r2 \in Readers :
          /\ rpc[r1] = "returned" /\ rptr[r1] = "null" /\ snap[r1] = <<>>
          /\ rpc[r2] = "returned" /\ rptr[r2] = "alloc"
          /\ snap[r2] = Captured(applep) /\ Len(snap[r2]) > 1

\* C2 as stated: a call that began after the capture observes the complete
\* set, never a null address with a non-zero length and never a non-null
\* address with a zero length.  Refuted by the empty captured set, whose
\* address is non-null (dangling) with length 0.
C2_AsStated ==
    \A r \in Readers :
        (rpc[r] = "returned" /\ rafter[r]) =>
            /\ snap[r] = Captured(applep)
            /\ ~(rptr[r] = "null" /\ rlen[r] # 0)
            /\ ~(rptr[r] # "null" /\ rlen[r] = 0)

\* C2 amended: for every captured set, a call that began after the capture
\* observes the complete set through a non-null address and the matching
\* length; it never observes a null address, and observes a zero length
\* only when the captured set is empty.  Once the capture has returned the
\* cells hold a non-null address and the number of captured entries.
C2_CompleteAfterCapture ==
    /\ \A r \in Readers :
          (rpc[r] = "returned" /\ rafter[r]) =>
              /\ snap[r] = Captured(applep)
              /\ rptr[r] # "null"
              /\ rlen[r] = Len(Captured(applep))
              /\ rlen[r] = 0 <=> Captured(applep) = <<>>
    /\ pc = "done" =>
          /\ LastOf(ARGS_DATA).val # "null"
          /\ LastOf(ARGS_LEN) = Len(Captured(applep))

\* C2 witness: after the capture returned, two threads created afterwards
\* have both read the complete three-entry set.
C2_Witness ==
    /\ pc = "done"
    /\ \A r \in Readers :
          /\ rpc[r] = "returned" /\ rafter[r]
          /\ rview[r].heap = 3 /\ Len(snap[r]) = 3

\* C3: when the capture publishes, the slice is exactly the strings before
\* the first null slot, in order, without the empty ones; every published
\* entry is non-empty and the stored length is their number.
C3_CaptureFilters ==
    pc \in {"forget", "done"} =>
        /\ heap = Captured(applep)
        /\ LastOf(ARGS_LEN) = Len(Captured(applep))
        /\ LastOf(ARGS_LEN) = Len(heap)
        /\ \A j \in 1..Len(heap) : Len(heap[j]) > 0
        /\ applep.null => heap = <<>>
        /\ (~applep.null /\ applep.arr[1].null) => heap = <<>>

\* C3 witness: a vector with an empty string between two different
\* non-empty ones was captured as the two, in order.
C3_Witness ==
    /\ pc = "done"
    /\ applep = Vec(<<StrSlot(<<97, NUL>>), StrSlot(<<NUL, 97, NUL>>),
                      StrSlot(<<97, 97, NUL>>), NullSlot>>)
    /\ heap = << <<97>>, <<97, 97>> >>

\* C4: once ARGS_DATA holds a non-null address, no step changes the two
\* cells or the published entries; and two calls of the same query that
\* began after the publication have the same result.
C4_SameResult ==
    \A r1, r2 \in Readers :
        ( /\ rpc[r1] = "returned" /\ rafter[r1]
          /\ rpc[r2] = "returned" /\ rafter[r2]
          /\ out[r1].op = out[r2].op /\ out[r1].key = out[r2].key )
        => out[r1].res = out[r2].res
C4_Frozen ==
    Published => /\ ARGS_DATA' = ARGS_DATA
                 /\ ARGS_LEN' = ARGS_LEN
                 /\ heap' = heap
\* C4: the published cells and entries are frozen by every step, and calls
\* of the same query after the publication always agree.
C4_Immutable == [][C4_Frozen]_vars /\ []C4_SameResult

\* C4 witness: two calls of apple_vars_os after the publication returned the
\* same non-empty list of pairs.
C4_Witness ==
    \E r1, r2 \in Readers :
        /\ r1 # r2
        /\ rpc[r1] = "returned" /\ rafter[r1]
        /\ rpc[r2] = "returned" /\ rafter[r2]
        /\ out[r1].op = "apple_vars_os" /\ out[r2].op = "apple_vars_os"
        /\ out[r1].res = out[r2].res
        /\ Len(out[r1].res.items) = 2

\* C5: when a step of the capture fails, the guard's drop runs and the
\* process ends: nothing is enabled afterwards, the address cell still
\* holds null and every read that returned is empty.  On the normal path
\* the guard is defused only with both cells stored, and it is never
\* dropped.
C5_AbortNoHalfPublish ==
    /\ pc \in {"start", "loop", "store_len", "store_data", "forget", "done",
               "unwinding", "aborted"}
    /\ pc \in {"unwinding", "aborted"} =>
          /\ ~Published
          /\ \A r \in Readers : rpc[r] = "returned" => snap[r] = <<>>
          /\ guard = IF pc = "aborted" THEN "dropped" ELSE "armed"
    /\ pc = "aborted" => ~ENABLED Next
    /\ guard = "dropped" => pc = "aborted"
    /\ guard = "defused" =>
          /\ pc = "done"
          /\ Len(ARGS_LEN) = 2 /\ Len(ARGS_DATA) = 2
          /\ LastOf(ARGS_DATA).val # "null"
    /\ pc = "done" => guard = "defused"

\* C5 witness: the capture failed after it had stored a non-zero length; the
\* process aborted, and a read that returned before saw nothing.
C5_Witness ==
    /\ pc = "aborted" /\ guard = "dropped"
    /\ Len(ARGS_LEN) = 2 /\ LastOf(ARGS_LEN) > 0
    /\ \E r \in Readers : rpc[r] = "returned" /\ snap[r] = <<>>

\* An empty result of a call: the iterators yield nothing and do not panic,
\* the raw lookup returns None and the UTF-8 lookup NotPresent.
EmptyResult(o) ==
    /\ ~o.res.panic
    /\ o.res.items = <<>>
    /\ o.res.val = <<>>
    /\ o.res.tag = (CASE o.op = "apple_var_os" -> "None"
                      [] o.op = "apple_var" -> "NotPresent"
                      [] OTHER -> "-")
\* C6: while nothing is published (the capture has not run or has not
\* stored the address), or when the vector is null or starts with a null
\* slot, every call of the six query functions that returns has an empty
\* result and none fails.
C6_EmptyCapture ==
    \A r \in Readers :
        ( /\ rpc[r] = "returned"
          /\ \/ ~Published
             \/ applep.null
             \/ applep.arr[1].null )
        => EmptyResult(out[r])

\* C6 witness: the capture ran on a vector whose first slot is null, and a
\* UTF-8 lookup made afterwards through the non-null address returned
\* NotPresent.
C6_Witness ==
    /\ pc = "done" /\ applep = Vec(<<NullSlot>>)
    /\ \E r \in Readers :
          /\ rpc[r] = "returned" /\ rptr[r] = "dangling"
          /\ out[r].op = "apple_var" /\ out[r].res.tag = "NotPresent"


Foo == <<102, 111, 111>>
EnvFoo4 ==
    << <<102,111,111,98,61,49>>, <<102,111,61,50>>, <<98,102,111,111,61,51>>,
       <<102,111,111,61,52>> >>
EnvFooEmpty ==
    << <<102,111,111,98,61,49>>, <<102,111,61,50>>, <<98,102,111,111,61,51>>,
       <<102,111,111,61>> >>
EnvFoo12 ==
    << <<102,111,111,98,61,49>>, <<102,111,61,50>>, <<98,102,111,111,61,51>>,
       <<102,111,111,61,49,61,50>> >>
EnvNoFoo == << <<98,102,111,111,61,49>>, <<102,111,61,50>> >>

\* C7 as stated (for every key without a NUL byte, which C9 treats): raw
\* lookup returns the value of the first entry whose '='-prefix equals the
\* key, and not-found when there is none.  Refuted by a key that itself
\* contains '=': the code matches by offset.
C7_AsStated ==
    (qpc = "getenv" /\ ~Contains(qkey, NUL)) => qres = PrefixLookup(qkey, qenv)

\* C7 amended: for every key containing neither '=' nor NUL and every entry
\* list, raw lookup returns the value of the first entry, in original order,
\* whose '='-prefix equals the key, and not-found when no entry has that
\* prefix; "foo" in ["foob=1","fo=2","bfoo=3","foo=4"] yields "4" and in
\* ["bfoo=1","fo=2"] yields not-found.
C7_PrefixLookup ==
    qpc = "getenv" =>
        /\ (~Contains(qkey, EQ) /\ ~Contains(qkey, NUL))
              => qres = PrefixLookup(qkey, qenv)
        /\ (qkey = Foo /\ qenv = EnvFoo4) => qres = Some(<<52>>)
        /\ (qkey = Foo /\ qenv = EnvNoFoo) => qres = None

\* C7 witness: the lookup of "foo" passed three colliding entries and
\* returned the value of the fourth.
C7_Witness ==
    qpc = "getenv" /\ qkey = Foo /\ qenv = EnvFoo4 /\ qres = Some(<<52>>)

\* C8: raw lookup edge cases.  A zero-length key yields the bytes after the
\* leading '=' of the first entry that begins with '=' ; for a key without
\* '=' and NUL the first entry that starts with key'=' yields everything
\* after that '=' (also further '=' bytes), and an empty value is Some(""),
\* distinct from None.
C8_EdgeCases ==
    qpc = "getenv" =>
        /\ qkey = <<>> =>
              LET M == {j \in 1..Len(qenv) : Len(qenv[j]) > 0 /\ qenv[j][1] = EQ}
              IN  qres = IF M = {} THEN None ELSE Some(Tail(qenv[MinOf(M)]))
        /\ (~Contains(qkey, EQ) /\ ~Contains(qkey, NUL)) =>
              \A j \in 1..Len(qenv) :
                  ( /\ StartsWith(qenv[j], qkey \o <<EQ>>)
                    /\ \A h \in 1..(j - 1) : ~StartsWith(qenv[h], qkey \o <<EQ>>) )
                  => /\ qres.some
                     /\ qkey \o <<EQ>> \o qres.val = qenv[j]
        /\ (qkey = Foo /\ qenv = EnvFoo12) => qres = Some(<<49, 61, 50>>)
        /\ (qkey = Foo /\ qenv = EnvFooEmpty) => (qres = Some(<<>>) /\ qres # None)

\* C8 witness: a zero-length key matched an entry "==a" and the value kept
\* its own '='.
C8_Witness ==
    /\ qpc = "getenv" /\ qkey = <<>>
    /\ qenv = << <<97>>, <<EQ, EQ, 97>> >>
    /\ qres = Some(<<EQ, 97>>)

\* C9: a key containing a NUL byte yields not-found from the raw lookup (and
\* not-present from the UTF-8 lookup) for every entry list.
C9_NulKeyNotFound ==
    Contains(qkey, NUL) =>
        /\ qpc = "getenv" => qres = None
        /\ qpc = "var" => qres = VarNotPresent

\* C9 witness: the key has a NUL byte, an entry starts with the key followed
\* by '=', and the lookup returned not-found.
C9_Witness ==
    /\ qpc = "getenv" /\ Contains(qkey, NUL)
    /\ \E j \in 1..Len(qenv) : StartsWith(qenv[j], qkey \o <<EQ>>)
    /\ qres = None

\* C10: the UTF-8 lookup has three outcomes decided by the first matching
\* entry: NotPresent iff no entry matches; Ok with the value's bytes iff the
\* first match's value is well-formed UTF-8; NotUnicode with exactly the
\* value's bytes otherwise, whatever later entries hold.
C10_ThreeOutcomes ==
    qpc = "var" =>
        LET raw == OffsetLookup(qkey, qenv) IN
        /\ qres.tag \in {"Ok", "NotUnicode", "NotPresent"}
        /\ qres.tag = "NotPresent" <=> ~raw.some
        /\ raw.some => qres.val = raw.val
        /\ qres.tag = "Ok" =>
              \A i \in 1..Len(qres.val) :
                  \* a well-formed string has no stray continuation or
                  \* invalid lead byte
                  /\ Utf8CharWidth(qres.val[i]) # 0 \/ IsCont(qres.val[i])
                  /\ qres.val[i] >= 192 => (i < Len(qres.val) /\ IsCont(qres.val[i + 1]))
                  /\ IsCont(qres.val[i]) => (i > 1 /\ qres.val[i - 1] >= 128)
        /\ (raw.some /\ \A i \in 1..Len(raw.val) : raw.val[i] < 128)
              => qres.tag = "Ok"
        /\ raw = Some(<<195, 169>>) => qres = VarOk(<<195, 169>>)
        /\ raw = Some(<<195>>) => qres = VarNotUnicode(<<195>>)
        /\ raw = Some(<<255>>) => qres = VarNotUnicode(<<255>>)

\* C10 witness: the first entry for the key has an invalid value, a later
\* one a valid value, and the lookup reported the invalid bytes.
C10_Witness ==
    /\ qpc = "var" /\ qkey = <<97>>
    /\ qenv = << <<97, 61, 195>>, <<97, 61, 97>> >>
    /\ qres = VarNotUnicode(<<195>>)

\* The lookup by offset alone: the first entry that has '=' at index len(k)
\* and starts with k, and its bytes after that index.
AtOffset(a, k) ==
    /\ Len(a) > Len(k)
    /\ a[Len(k) + 1] = EQ
    /\ \A i \in 1..Len(k) : a[i] = k[i]
AtOffsetLookup(k, env) ==
    LET M == {j \in 1..Len(env) : AtOffset(env[j], k)} IN
    IF M = {} THEN None
    ELSE Some([i \in 1..(Len(env[MinOf(M)]) - Len(k) - 1) |->
                  env[MinOf(M)][Len(k) + 1 + i]])

EnvEqKeys == << <<61,97,98,99>>, <<61,61,100,101,102>> >>

\* C14 as stated: for every key, raw lookup returns the bytes after index
\* len(k) of the first entry with '=' at index len(k) that starts with k.
\* Refuted by a key with a NUL byte on an entry list that holds such an
\* entry: the lookup returns not-found before it scans.
C14_AsStated ==
    qpc = "getenv" => qres = AtOffsetLookup(qkey, qenv)

\* C14 amended: for every key without a NUL byte, also one that itself
\* contains '=', raw lookup matches purely by offset: it returns the bytes
\* after index len(k) of the first entry that has '=' at index len(k) and
\* starts with k, and not-found when there is none; the key "=" in
\* ["=abc", "==def"] skips "=abc" and yields "def".
C14_OffsetMatch ==
    qpc = "getenv" =>
        /\ ~Contains(qkey, NUL) => qres = AtOffsetLookup(qkey, qenv)
        /\ (qkey = <<EQ>> /\ qenv = EnvEqKeys) => qres = Some(<<100, 101, 102>>)

\* C14 witness: the key "=" skipped "=abc" and matched "==def".
C14_Witness ==
    qpc = "getenv" /\ qkey = <<EQ>> /\ qenv = EnvEqKeys
    /\ qres = Some(<<100, 101, 102>>)

\* The entries of a snapshot that contain '=', and the place of one of them
\* among these.
EqEntries(env) == {j \in 1..Len(env) : HasEq(env[j])}
RankIn(S, j) == Cardinality({h \in S : h <= j})

\* C11: raw key/value iteration yields, in entry order, exactly one pair per
\* entry that contains '=', the pair being (bytes before the first '=', bytes
\* after the first '='), and nothing for an entry without '='; "K=V" gives
\* (K,V), "=V" gives ("",V), "K=" gives (K,""), and the number of pairs is
\* the number of entries that contain '='.
C11_SplitAtFirstEq ==
    qpc = "vars_os" =>
        /\ ~qres.panic
        /\ Len(qres.items) = Cardinality(EqEntries(qenv))
        /\ \A j \in EqEntries(qenv) :
               qres.items[RankIn(EqEntries(qenv), j)]
                   = <<EqPrefix(qenv[j]), EqSuffix(qenv[j])>>
        /\ qenv \in KvEnvs =>
               qres.items = << <<(<<97>>), <<98>>>>, <<(<<>>), <<98>>>>,
                               <<(<<97>>), <<>>>>, <<(<<97>>), <<98,61,99>>>> >>

\* C11 witness: the snapshot "a=b", "c", "=b", "a=", "a=b=c" was iterated
\* and gave four pairs.
C11_Witness ==
    qpc = "vars_os" /\ qenv \in KvEnvs /\ Len(qres.items) = 4

\* The entries an iterator has taken from each end and those it has visited,
\* read off the inner iterator; the items it handed out from one end.
FrontTaken(it) == 1..it.inner.lo
BackTaken(it, env) == (it.inner.hi + 1)..Len(env)
Visited(it, env) == FrontTaken(it) \cup BackTaken(it, env)
YieldedPos(it) == {it.yielded[i].pos : i \in 1..Len(it.yielded)}
IsFrom(y, end) == y.end = end
FromEnd(it, end) == SelectSeq(it.yielded, LAMBDA y : IsFrom(y, end))
Vals(ys) == [i \in 1..Len(ys) |-> ys[i].val]
Reverse(xs) == [i \in 1..Len(xs) |-> xs[Len(xs) + 1 - i]]
ValidUtf8(a) == from_utf8_ok(a)

\* C12: UTF-8 iteration visits the same entries in the same order as raw
\* iteration. Under the same calls both hand out, from the front, the
\* entries 1, 2, ... and, from the back, the entries n, n-1, ..., each with
\* its bytes unchanged, so over valid entries the two sequences correspond
\* element by element and have equal length; the raw iterator never panics;
\* the UTF-8 iterator panics at exactly the step that reaches an entry that
\* is not valid UTF-8, and that entry is neither skipped nor handed out.
C12_SameEntriesOrPanic ==
    qpc = "iter" =>
        /\ \A i \in 1..Len(FromEnd(qit, "front")) : FromEnd(qit, "front")[i].pos = i
        /\ \A i \in 1..Len(FromEnd(qit, "back")) :
               FromEnd(qit, "back")[i].pos = Len(qenv) + 1 - i
        /\ \A i \in 1..Len(qit.yielded) :
               qit.yielded[i].val = qenv[qit.yielded[i].pos]
        /\ qit.kind = "AppleArgsOs" =>
               /\ qit.ret.tag # "panic"
               /\ YieldedPos(qit) = Visited(qit, qenv)
        /\ qit.kind = "AppleArgs" =>
               /\ \A p \in Visited(qit, qenv) :
                      IF ValidUtf8(qenv[p]) THEN p \in YieldedPos(qit)
                      ELSE /\ p \notin YieldedPos(qit)
                           /\ qit.ret.tag = "panic" /\ qit.ret.pos = p
               /\ qit.ret.tag = "panic" => ~ValidUtf8(qenv[qit.ret.pos])
        /\ (qit.ret.tag = "None" /\ FromEnd(qit, "back") = <<>>) =>
               Vals(qit.yielded) = qenv
        /\ ~ValidUtf8(<<255>>) /\ ~ValidUtf8(<<195>>) /\ ValidUtf8(<<195, 169>>)

\* C12 witness: the UTF-8 iterator handed out a valid entry and panicked on
\* the invalid entry after it.
C12_Witness ==
    /\ qpc = "iter" /\ qit.kind = "AppleArgs"
    /\ Len(qit.yielded) = 1 /\ qit.yielded[1].pos = 1
    /\ qit.ret.tag = "panic" /\ qit.ret.pos = 2

\* C12 witness for the raw side: the raw iterator handed out an entry that is
\* not valid UTF-8.
C12_RawWitness ==
    /\ qpc = "iter" /\ qit.kind = "AppleArgsOs"
    /\ \E i \in 1..Len(qit.yielded) : ~ValidUtf8(qit.yielded[i].val)

\* The entries still ahead of an iterator that can come out as items.
StillYieldable(it, env) ==
    Cardinality({p \in (it.inner.lo + 1)..it.inner.hi :
                    it.kind = "AppleArgsOs" \/ ValidUtf8(env[p])})
Unvisited(it, env) == Len(env) - Cardinality(Visited(it, env))
AtMostOnce(it) ==
    \A i, j \in 1..Len(it.yielded) :
        it.yielded[i].pos = it.yielded[j].pos => i = j
\* Only-front items are the first entries in order, only-back items the last
\* entries in reverse, and a whole traversal from the back is the reverse of
\* a whole traversal from the front.
BackIsReverse(it, env) ==
    /\ FromEnd(it, "back") = <<>> =>
           Vals(it.yielded) = SubSeq(env, 1, Len(it.yielded))
    /\ FromEnd(it, "front") = <<>> =>
           /\ Vals(it.yielded)
                  = SubSeq(Reverse(env), 1, Len(it.yielded))
           /\ it.ret.tag = "None" => Vals(it.yielded) = Reverse(env)
Fused(it) == it.nones >= 1 => it.ret.tag = "None" /\ IterLen(it) = 0
CountsAgree(it) ==
    /\ IterSizeHint(it) = <<IterLen(it), Some(IterLen(it))>>
    /\ IterCount(it) = IterLen(it)

\* C13 as stated: for both iterators and any calls, no entry is handed out
\* twice, back-only is the reverse of front-only, len / size_hint / count
\* equal the number of items still to come, and None is final. Refuted for
\* the UTF-8 iterator while an entry that is not valid UTF-8 is still ahead:
\* it is counted but never comes out as an item.
C13_AsStated ==
    (qpc = "iter" /\ qit.ret.tag # "panic") =>
        /\ AtMostOnce(qit)
        /\ BackIsReverse(qit, qenv)
        /\ CountsAgree(qit)
        /\ IterLen(qit) = StillYieldable(qit, qenv)
        /\ Fused(qit)

\* C13 amended: for both iterators and any calls, no entry is handed out
\* twice, back-only is the reverse of front-only, None is final, and
\* len / size_hint / count equal the number of entries not yet visited; that
\* is the number of items still to come for the raw iterator, and for the
\* UTF-8 iterator when every entry still ahead is valid UTF-8.
C13_IteratorLaws ==
    qpc = "iter" =>
        /\ AtMostOnce(qit)
        /\ BackIsReverse(qit, qenv)
        /\ CountsAgree(qit)
        /\ IterLen(qit) = Unvisited(qit, qenv)
        /\ (\/ qit.kind = "AppleArgsOs"
            \/ \A p \in (qit.inner.lo + 1)..qit.inner.hi : ValidUtf8(qenv[p]))
               => IterLen(qit) = StillYieldable(qit, qenv)
        /\ qit.ret.tag = "None" => IterLen(qit) = 0 /\ Len(qit.yielded) = Len(qenv)
        /\ Fused(qit)

\* C13 witness: an iterator was taken from both ends until it was exhausted
\* and then called again.
C13_Witness ==
    /\ qpc = "iter"
    /\ FromEnd(qit, "front") # <<>> /\ FromEnd(qit, "back") # <<>>
    /\ Len(qit.yielded) = Len(qenv) /\ Len(qenv) >= 3
    /\ qit.nones = 2

====
